---- MODULE Spec2Model ----
(***************************************************************************)
(* Rubric import of codepost-rubric-import-export:                         *)
(* src/rubric/sheet_to_rubric_names.py.  The remote platform (codePost)    *)
(* holds rubric categories and rubric comments; the functions              *)
(* create_assignment_rubric, wipe_and_create_assignment_rubric and         *)
(* create_all_rubrics reconcile it with a rubric read from a sheet.        *)
(* Every remote call is one step.  Spec: one call, every remote call of    *)
(* which succeeds.  SpecTwice: create_assignment_rubric called repeatedly  *)
(* with the same arguments.  SpecFail: one call, any remote call of which  *)
(* may raise; no function of the file catches an exception.  SpecMain:     *)
(* main, from the login to the end of create_all_rubrics, every table read *)
(* by get_all_rubric_comments one step.  SpecParser: one call of           *)
(* get_assignment_rubric, every row of the worksheet one step.             *)
(***************************************************************************)
EXTENDS Integers, Sequences, FiniteSets, TLC

----------------------------------------------------------------------------
(* Bounds of the model *)

\* largest number of comments in the rubric read from the sheet
MaxTarget == 2

\* largest number of comments in the rubric found on the platform
MaxObserved == 2

\* number of consecutive calls with the same arguments
MaxRuns == 2

\* largest index of a table of the sheet
MaxSheet == 2

\* largest number of rows of a worksheet
MaxRows == 2

----------------------------------------------------------------------------
(* Values *)

None == [t |-> "none"]

IntV(n) == [t |-> "int", v |-> n]

StrV(x) == [t |-> "str", v |-> x]

CatNames == {"X", "Y"}

ComNames == {"A", "B", "C"}

----------------------------------------------------------------------------
(* Python dicts, as sequences of <<key, value>> in insertion order *)

Keys(d) == {d[i][1] : i \in 1..Len(d)}

RECURSIVE KeyList(_)
KeyList(d) == IF d = <<>> THEN <<>> ELSE <<Head(d)[1]>> \o KeyList(Tail(d))

Get(d, k) == d[CHOOSE i \in 1..Len(d) : d[i][1] = k][2]

\* d[k] = v: an existing key keeps its position, a new key goes last
Put(d, k, v) ==
    IF k \in Keys(d)
    THEN [d EXCEPT ![CHOOSE i \in 1..Len(d) : d[i][1] = k] = <<k, v>>]
    ELSE Append(d, <<k, v>>)

\* mutant: the key stays in the dict
PopNot(d, k) == d

\* d.pop(k)
Pop(d, k) == SelectSeq(d, LAMBDA e : e[1] # k)

RECURSIVE PutAll(_, _)
PutAll(d, kvs) ==
    IF kvs = <<>> THEN d
    ELSE PutAll(Put(d, Head(kvs)[1], Head(kvs)[2]), Tail(kvs))

\* the records of a set, as a list in ascending id
RECURSIVE ById(_)
ById(S) ==
    IF S = {} THEN <<>>
    ELSE LET m == CHOOSE x \in S : \A y \in S : x.id <= y.id
         IN <<m>> \o ById(S \ {m})

----------------------------------------------------------------------------
VARIABLES
    remoteCats,       \* platform: rubric categories
    remoteComs,       \* platform: rubric comments
    nextId,           \* platform: next id it hands out
    submissions,      \* platform: assignments that have submissions
    rubric,           \* argument: { category: (max_points, [comments]) }
    rubricIds,        \* argument of create_all_rubrics: the keys of rubrics
    override_rubric,  \* argument
    delete_missing,   \* argument
    wipe_existing,    \* argument of create_all_rubrics
    entry,            \* the function that was called
    a_id,             \* argument: the assignment being reconciled
    pc,               \* position in the running function
    outcome,          \* "running", "successful", "unsuccessful", "returned", "raised:..."
    run,              \* number of the current call
    categories,       \* local dict: name -> category object
    old_comments,     \* local dict: name -> comment object
    missing_comments, \* local list (in the order of a set), not yet deleted
    new_names,        \* local set, not yet created
    missing_categories, \* local set, not yet created
    keys,             \* local list(categories.keys()) of the cascade loop
    idx,              \* loop index (categories, old comments, rubric items)
    jdx,              \* loop index (comments of the category being created)
    c_id,             \* local: id of the category just created (wipe mode)
    all_idx,          \* create_all_rubrics: position in rubrics.items()
    sdk,              \* how category.rubricComments reads after deletions
    ops,              \* history: remote mutations issued by this call
    cats0,            \* history: remoteCats when this call began
    coms0,            \* history: remoteComs when this call began
    reconciled,       \* history: <<assignment, algorithm>> of every body begun
    testing,          \* argument of main
    start_sheet,      \* argument of main and get_all_rubric_comments
    end_sheet,        \* argument of main and get_all_rubric_comments
    index,            \* get_all_rubric_comments: loop index
    a_ids,            \* get_all_rubric_comments: local set
    data,             \* get_all_rubric_comments: local dict a_id -> rubric
    read,             \* history: [index, a1, result] of every table read
    failed,           \* history: the setup step of main that failed
    headers,          \* the header row of the worksheet
    row,              \* get_assignment_rubric: the row of the last iteration
    n_rows,           \* get_assignment_rubric: rows iterated so far
    emitted,          \* history: the comment appended for that row, or None
    argv              \* history: <<start_sheet, end_sheet>> of the command line

vars == <<remoteCats, remoteComs, nextId, submissions, rubric, rubricIds,
          override_rubric, delete_missing, wipe_existing, entry, a_id, pc,
          outcome, run, categories, old_comments, missing_comments, new_names,
          missing_categories, keys, idx, jdx, c_id, all_idx, sdk, ops,
          cats0, coms0, reconciled, testing, start_sheet, end_sheet, index,
          a_ids, data, read, failed, headers, row, n_rows, emitted, argv>>

\* the variables of main, get_all_rubric_comments and get_assignment_rubric
sheetvars == <<testing, start_sheet, end_sheet, index, a_ids, data, read,
               failed, headers, row, n_rows, emitted, argv>>

args == <<rubric, rubricIds, override_rubric, delete_missing, wipe_existing,
          entry>>

locals == <<categories, old_comments, missing_comments, new_names,
            missing_categories, keys, idx, jdx, c_id>>

----------------------------------------------------------------------------
(* The rubric read from the sheet: { category: (max_points, [comments]) },  *)
(* a list of [name, max_points, comments] in the dict's insertion order     *)

\* the k-th comment of the sheet; every field differs from a platform
\* comment that was never imported (ObservedComment)
TargetComment(n, k) ==
    [name |-> n, text |-> k, pointDelta |-> 0 - k, explanation |-> k,
     instructionText |-> k, templateTextOn |-> (k % 2 = 1)]

TargetMaxPoints(c) == IF c = "X" THEN None ELSE IntV(0 - 10)

NameSeqs == UNION {[1..k -> ComNames] : k \in 0..MaxTarget}

CatOrders ==
    {<<>>} \cup {<<c>> : c \in CatNames}
           \cup UNION {{<<c, d>> : d \in CatNames \ {c}} : c \in CatNames}

RECURSIVE TotalLen(_)
TotalLen(ss) == IF ss = <<>> THEN 0 ELSE Len(Head(ss)) + TotalLen(Tail(ss))

\* the comments named ns, the first of them the (k + 1)-th of the sheet
RECURSIVE MkComments(_, _)
MkComments(ns, k) ==
    IF ns = <<>> THEN <<>>
    ELSE <<TargetComment(Head(ns), k + 1)>> \o MkComments(Tail(ns), k + 1)

\* the categories o in this order, the i-th with the comments named ns[i]
RECURSIVE MkRubric(_, _, _)
MkRubric(o, ns, k) ==
    IF o = <<>> THEN <<>>
    ELSE <<[name |-> Head(o), max_points |-> TargetMaxPoints(Head(o)),
            comments |-> MkComments(Head(ns), k)]>>
         \o MkRubric(Tail(o), Tail(ns), k + Len(Head(ns)))

Targets(n) ==
    UNION {{MkRubric(o, ns, 0) :
               ns \in {x \in [1..Len(o) -> NameSeqs] : TotalLen(x) <= n}}
           : o \in CatOrders}

\* rubric.keys()
RubricKeys(r) == {r[i].name : i \in 1..Len(r)}

\* rubric[c_name]
RubricItem(r, c) == r[CHOOSE i \in 1..Len(r) : r[i].name = c]

\* every comment of the rubric, in iteration order, as <<name, value of c>>
RECURSIVE Flat(_, _)
Flat(r, c) ==
    IF r = <<>> THEN <<>>
    ELSE LET ms == Head(r).comments
         IN IF ms = <<>> THEN Flat(Tail(r), c)
            ELSE <<<<Head(ms).name,
                     IF c = "category" THEN Head(r).name ELSE Head(ms)>>>>
                 \o Flat(<<[Head(r) EXCEPT !.comments = Tail(ms)]>> \o Tail(r), c)

----------------------------------------------------------------------------
(* The platform *)

CatId(c) == IF c = "X" THEN 1 ELSE 2

ComId(n) == IF n = "A" THEN 11 ELSE IF n = "B" THEN 12 ELSE 13

ObservedCategory(c) ==
    [id |-> CatId(c), name |-> c, assignment |-> 1,
     pointLimit |-> IntV(0 - 5), sortKey |-> IntV(CatId(c))]

ObservedComment(n, c) ==
    [id |-> ComId(n), name |-> n, category |-> CatId(c), text |-> 0,
     pointDelta |-> 0, explanation |-> 0, instructionText |-> 0,
     templateTextOn |-> FALSE]

\* the rubric of the other assignment of the course
OtherCats ==
    {[id |-> 3, name |-> "X", assignment |-> 2, pointLimit |-> IntV(0 - 5),
      sortKey |-> IntV(0)]}

OtherComs ==
    {[id |-> 14, name |-> "A", category |-> 3, text |-> 0, pointDelta |-> 0,
      explanation |-> 0, instructionText |-> 0, templateTextOn |-> FALSE]}

FirstNewId == 21

\* where each comment name is on the platform ("-": nowhere); the platform
\* holds the first k names, k <= n (the names differ in nothing but their
\* order)
Placements(n) ==
    {p \in [ComNames -> CatNames \cup {"-"}] :
        \E k \in 0..n : \A x \in ComNames : (p[x] # "-") <=> (ComId(x) - 10 <= k)}

\* mutant: the categories of every assignment of the course
CatsOfCourse(a) == remoteCats

\* assignment.rubricCategories
CatsOf(a) == {c \in remoteCats : c.assignment = a}

ComsIn(cid) == {m \in remoteComs : m.category = cid}

----------------------------------------------------------------------------
(* Init: the state when one of the three functions has just been called *)

InitPlatform(p, E) ==
    /\ remoteCats = OtherCats \cup
           {ObservedCategory(c) : c \in ({p[n] : n \in ComNames} \ {"-"}) \cup E}
    /\ remoteComs = OtherComs \cup
           {ObservedComment(n, p[n]) : n \in {x \in ComNames : p[x] # "-"}}
    /\ nextId = FirstNewId

InitLocals ==
    /\ categories = <<>>
    /\ old_comments = <<>>
    /\ missing_comments = {}
    /\ new_names = {}
    /\ missing_categories = {}
    /\ keys = <<>>
    /\ idx = 0
    /\ jdx = 0
    /\ c_id = 0

\* main, get_all_rubric_comments and get_assignment_rubric are not running
InitSheet ==
    /\ testing = FALSE
    /\ start_sheet = None
    /\ end_sheet = None
    /\ index = 0
    /\ a_ids = {}
    /\ data = <<>>
    /\ read = <<>>
    /\ failed = "none"
    /\ headers = {}
    /\ row = <<>>
    /\ n_rows = 0
    /\ emitted = None
    /\ argv = <<start_sheet, end_sheet>>

InitArgs(e) ==
    /\ entry = e
    /\ InitSheet
    /\ IF e = "create_all_rubrics"
       THEN /\ rubric \in Targets(MaxTarget - 1)
            /\ InitPlatform([n \in ComNames |-> "-"], CatNames)
            /\ rubricIds \in {<<>>, <<1>>, <<2>>, <<1, 2>>, <<2, 1>>}
            /\ wipe_existing \in BOOLEAN
            /\ delete_missing \in BOOLEAN
            /\ a_id = 0
            /\ pc = "all_loop"
       ELSE /\ rubric \in Targets(MaxTarget)
            /\ \E p \in Placements(MaxObserved), E \in SUBSET CatNames :
                  InitPlatform(p, E)
            /\ rubricIds = <<>>
            /\ wipe_existing = FALSE
            /\ IF e = "create_assignment_rubric"
               THEN delete_missing \in BOOLEAN /\ pc = "guard"
               ELSE delete_missing = FALSE /\ pc = "w_guard"
            /\ a_id = 1
    /\ submissions \in SUBSET {1}
    /\ override_rubric \in BOOLEAN
    /\ outcome = "running"
    /\ run = 1
    /\ all_idx = 1
    /\ InitLocals
    /\ sdk = "unread"
    /\ ops = <<>>
    /\ cats0 = remoteCats
    /\ coms0 = remoteComs
    /\ reconciled = <<>>

\* one call of one of the three functions
Init ==
    \E e \in {"create_assignment_rubric", "wipe_and_create_assignment_rubric",
              "create_all_rubrics"} : InitArgs(e)

\* calls of create_assignment_rubric
InitIncremental == InitArgs("create_assignment_rubric")

----------------------------------------------------------------------------
(* Control *)

Op(kind, id, name, parent, info) ==
    [op |-> kind, id |-> id, name |-> name, parent |-> parent, info |-> info]

ClearLocals ==
    /\ categories' = <<>>
    /\ old_comments' = <<>>
    /\ missing_comments' = {}
    /\ new_names' = {}
    /\ missing_categories' = {}
    /\ keys' = <<>>
    /\ idx' = 0
    /\ jdx' = 0
    /\ c_id' = 0

\* the function returns: to create_all_rubrics' loop, or to the caller
Return(o) ==
    /\ pc' = IF entry = "create_all_rubrics" THEN "all_loop" ELSE "done"
    /\ outcome' = IF entry = "create_all_rubrics" THEN outcome ELSE o
    /\ ClearLocals

\* an exception leaves every frame: nothing in the file catches it
Raise(e) ==
    /\ pc' = "done"
    /\ outcome' = e
    /\ ClearLocals

Raised ==
    outcome \in {"raised:remote", "raised:KeyError", "raised:TypeError",
                 "raised:ValueError"}

\* mutant: the guard never refuses
RefusesNever == FALSE

\* the assignment has submissions and the caller did not override
Refuses == a_id \in submissions /\ ~override_rubric

\* the locals after a step, and where the function goes on
Continue(p, cs, oc, mcom, nn, mcat, ks, i, j, cid) ==
    IF p = "return"
    THEN Return("successful")
    ELSE /\ pc' = p
         /\ outcome' = outcome
         /\ categories' = cs
         /\ old_comments' = oc
         /\ missing_comments' = mcom
         /\ new_names' = nn
         /\ missing_categories' = mcat
         /\ keys' = ks
         /\ idx' = i
         /\ jdx' = j
         /\ c_id' = cid

----------------------------------------------------------------------------
(* create_assignment_rubric *)

\* mutant: the first row of a name is the one that stays
RubricCommentsFirst(r) ==
    LET f == Flat(r, "comment")
    IN PutAll(<<>>, [i \in 1..Len(f) |-> f[Len(f) + 1 - i]])

\* rubric_comments: name -> comment of the sheet (a later row replaces an
\* earlier one of the same name)
RubricComments(r) == PutAll(<<>>, Flat(r, "comment"))

\* mutant: every name goes to the first category of the sheet
CommentCategoriesHead(r) ==
    LET f == Flat(r, "category")
    IN PutAll(<<>>, [i \in 1..Len(f) |-> <<f[i][1], r[1].name>>])

\* comment_categories: name -> category name of the sheet
CommentCategories(r) == PutAll(<<>>, Flat(r, "category"))

\* the client's objects for the platform's records ms, as <<name, object>>
RECURSIVE CommentObjects(_)
CommentObjects(ms) ==
    IF ms = <<>> THEN <<>>
    ELSE <<<<Head(ms).name, [id |-> Head(ms).id, name |-> Head(ms).name]>>>>
         \o CommentObjects(Tail(ms))

RECURSIVE CategoryObjectsOf(_)
CategoryObjectsOf(cs) ==
    IF cs = <<>> THEN <<>>
    ELSE <<<<Head(cs).name,
             [id |-> Head(cs).id, name |-> Head(cs).name,
              rubricComments |-> CommentObjects(ById(ComsIn(Head(cs).id)))]>>>>
         \o CategoryObjectsOf(Tail(cs))

\* assignment.rubricCategories, as the platform lists them
CategoryObjects(a) == CategoryObjectsOf(ById(CatsOf(a)))

\* categories[category.name] = category
ExistingCategories(a) == PutAll(<<>>, CategoryObjects(a))

RECURSIVE AllComments(_)
AllComments(cs) ==
    IF cs = <<>> THEN <<>> ELSE Head(cs)[2].rubricComments \o AllComments(Tail(cs))

\* old_comments[comment.name] = comment
ExistingComments(a) == PutAll(<<>>, AllComments(CategoryObjects(a)))

\* mutant: every existing name counts as missing
MissingNamesAll(existing_names, sheet_names) == existing_names

\* missing_names = existing_names - sheet_names
MissingNames(existing_names, sheet_names) == existing_names \ sheet_names

\* mutant: every name of the sheet counts as new
NewNamesAll(existing_names, sheet_names) == sheet_names

\* new_names = sheet_names - existing_names
NewNames(existing_names, sheet_names) == sheet_names \ existing_names

\* mutants: every category of the sheet counts as missing; none does
MissingCategoriesAll(new_categories, existing_categories) == new_categories

MissingCategoriesNone(new_categories, existing_categories) == {}

\* missing_categories = new_categories - existing_categories
MissingCategories(new_categories, existing_categories) ==
    new_categories \ existing_categories

\* mutants: delete_missing is not consulted; nothing is ever deleted
DeletesMissingAlways(missing) == missing # {}

DeletesMissingNever(missing) == FALSE

\* lines 311-315: the missing comments are deleted
DeletesMissing(missing) == missing # {} /\ delete_missing

\* mutants: every category counts as empty; no category counts as empty
RubricCommentsLenZero(cat, view) == 0

RubricCommentsLenOne(cat, view) == 1

\* len(category.rubricComments) of a category object fetched before the
\* deletions: the object's own list, or the platform's if the client reads
\* it again
RubricCommentsLen(cat, view) ==
    IF view = "live" THEN Cardinality(ComsIn(cat.id)) ELSE Len(cat.rubricComments)

\* where the function goes on after the old comments from position i
AfterUpdate(oc, i, nn) ==
    IF i <= Len(oc) THEN "update"
    ELSE IF nn # {} THEN "create_comments" ELSE "return"

\* lines 330-334, reached with the categories dict cs
ToCreateCategories(cs, oc, nn) ==
    LET mcat == MissingCategories(RubricKeys(rubric), Keys(cs))
    IN Continue(IF mcat # {} THEN "create_categories" ELSE AfterUpdate(oc, 1, nn),
                cs, oc, {}, nn, mcat, <<>>, 1, 0, 0)

\* lines 272-284
CheckSubmissions ==
    /\ pc = "guard"
    /\ reconciled' = Append(reconciled, <<a_id, "incremental">>)
    /\ IF Refuses
       THEN Return("unsuccessful")
       ELSE Continue("fetch", <<>>, <<>>, {}, {}, {}, <<>>, 0, 0, 0)
    /\ UNCHANGED <<remoteCats, remoteComs, nextId, submissions, args, a_id, run,
                   all_idx, sdk, ops, cats0, coms0>>
    /\ UNCHANGED sheetvars

\* lines 286-311
GetExisting ==
    /\ pc = "fetch"
    /\ LET cs == ExistingCategories(a_id)
           old == ExistingComments(a_id)
           existing_names == Keys(old)
           sheet_names == Keys(RubricComments(rubric))
           missing_names == MissingNames(existing_names, sheet_names)
           mcom == {Get(old, n) : n \in missing_names}
           oc == SelectSeq(old, LAMBDA e : e[1] \notin missing_names)
           nn == NewNames(existing_names, sheet_names)
       IN IF DeletesMissing(mcom)
          THEN Continue("delete_comments", cs, oc, mcom, nn, {}, <<>>, 0, 0, 0)
          ELSE ToCreateCategories(cs, oc, nn)
    /\ UNCHANGED <<remoteCats, remoteComs, nextId, submissions, args, a_id, run,
                   all_idx, sdk, ops, cats0, coms0, reconciled>>
    /\ UNCHANGED sheetvars

\* mutant: the loop over the missing comments ends after its first iteration
ExhaustedAlways(rest) == TRUE

\* line 317: the for loop has no element left
Exhausted(rest) == rest = {}

\* lines 317-319: comment.delete(), in the order of the set of missing names
DeleteMissingComment ==
    /\ pc = "delete_comments"
    /\ \E c \in missing_comments :
          /\ \E m \in remoteComs : m.id = c.id
          /\ remoteComs' = {m \in remoteComs : m.id # c.id}
          /\ ops' = Append(ops, Op("delete_comment", c.id, c.name, None, None))
          /\ IF Exhausted(missing_comments \ {c})
             THEN Continue("delete_categories", categories, old_comments, {},
                           new_names, {}, KeyList(categories), 1, 0, 0)
             ELSE Continue("delete_comments", categories, old_comments,
                           missing_comments \ {c}, new_names, {}, <<>>, 0, 0, 0)
    /\ UNCHANGED <<remoteCats, nextId, submissions, args, a_id, run, all_idx, sdk,
                   cats0, coms0, reconciled>>
    /\ UNCHANGED sheetvars

\* lines 324-327: one iteration of the loop over list(categories.keys())
DeleteEmptyCategory ==
    /\ pc = "delete_categories"
    /\ idx <= Len(keys)
    /\ \E view \in (IF sdk = "unread" THEN {"snapshot", "live"} ELSE {sdk}) :
          LET c_name == keys[idx]
              cat == Get(categories, c_name)
              empty == RubricCommentsLen(cat, view) = 0
              cs == IF empty THEN Pop(categories, c_name) ELSE categories
          IN /\ sdk' = view
             /\ IF empty
                THEN /\ remoteCats' = {c \in remoteCats : c.id # cat.id}
                     /\ remoteComs' = {m \in remoteComs : m.category # cat.id}
                     /\ ops' = Append(ops, Op("delete_category", cat.id, c_name,
                                              None, None))
                ELSE UNCHANGED <<remoteCats, remoteComs, ops>>
             /\ IF idx < Len(keys)
                THEN Continue("delete_categories", cs, old_comments, {}, new_names,
                              {}, keys, idx + 1, 0, 0)
                ELSE ToCreateCategories(cs, old_comments, new_names)
    /\ UNCHANGED <<nextId, submissions, args, a_id, run, all_idx, cats0, coms0,
                   reconciled>>
    /\ UNCHANGED sheetvars

\* lines 336-348: codepost.rubric_category.create, in the order of the set
CreateMissingCategory ==
    /\ pc = "create_categories"
    /\ \E c_name \in missing_categories :
          LET max_points == RubricItem(rubric, c_name).max_points
              category == [id |-> nextId, name |-> c_name, rubricComments |-> <<>>]
              cs == Put(categories, c_name, category)
              mcat == missing_categories \ {c_name}
          IN /\ remoteCats' = remoteCats \cup
                    {[id |-> nextId, name |-> c_name, assignment |-> a_id,
                      pointLimit |-> max_points, sortKey |-> None]}
             /\ nextId' = nextId + 1
             /\ ops' = Append(ops, Op("create_category", nextId, c_name, a_id,
                                      [pointLimit |-> max_points, sortKey |-> None]))
             /\ Continue(IF mcat # {} THEN "create_categories"
                         ELSE AfterUpdate(old_comments, 1, new_names),
                         cs, old_comments, {}, new_names, mcat, <<>>, 1, 0, 0)
    /\ UNCHANGED <<remoteComs, submissions, args, a_id, run, all_idx, sdk, cats0,
                   coms0, reconciled>>
    /\ UNCHANGED sheetvars

\* mutant: the update moves the comment to the category the sheet gives it
UpdatedMoved(m, comment_info) ==
    [id |-> m.id,
     category |-> Get(categories, Get(CommentCategories(rubric), comment_info.name)).id,
     name |-> comment_info.name,
     text |-> comment_info.text, pointDelta |-> comment_info.pointDelta,
     explanation |-> comment_info.explanation,
     instructionText |-> comment_info.instructionText,
     templateTextOn |-> comment_info.templateTextOn]

\* mutant: the update does not carry pointDelta
UpdatedNoPoints(m, comment_info) ==
    [id |-> m.id, category |-> m.category, name |-> comment_info.name,
     text |-> comment_info.text, pointDelta |-> m.pointDelta,
     explanation |-> comment_info.explanation,
     instructionText |-> comment_info.instructionText,
     templateTextOn |-> comment_info.templateTextOn]

\* comment.update(id=comment.id, **comment_info) on the platform's comment m
Updated(m, comment_info) ==
    [id |-> m.id, category |-> m.category, name |-> comment_info.name,
     text |-> comment_info.text, pointDelta |-> comment_info.pointDelta,
     explanation |-> comment_info.explanation,
     instructionText |-> comment_info.instructionText,
     templateTextOn |-> comment_info.templateTextOn]

\* codepost.rubric_comment.create(category=c_id, **comment_info)
Created(id, cid, comment_info) ==
    [id |-> id, category |-> cid, name |-> comment_info.name,
     text |-> comment_info.text, pointDelta |-> comment_info.pointDelta,
     explanation |-> comment_info.explanation,
     instructionText |-> comment_info.instructionText,
     templateTextOn |-> comment_info.templateTextOn]

\* lines 352-354: one iteration of the loop over old_comments.items()
UpdateExistingComment ==
    /\ pc = "update"
    /\ idx <= Len(old_comments)
    /\ LET name == old_comments[idx][1]
           comment == old_comments[idx][2]
       IN IF name \notin Keys(RubricComments(rubric))
          THEN Raise("raised:KeyError") /\ UNCHANGED <<remoteComs, ops>>
          ELSE LET comment_info == Get(RubricComments(rubric), name)
               IN /\ \E m \in remoteComs : m.id = comment.id
                  /\ remoteComs' = {IF m.id = comment.id THEN Updated(m, comment_info)
                                    ELSE m : m \in remoteComs}
                  /\ ops' = Append(ops, Op("update_comment", comment.id, name, None,
                                           comment_info))
                  /\ Continue(AfterUpdate(old_comments, idx + 1, new_names),
                              categories, old_comments, {}, new_names, {}, <<>>,
                              idx + 1, 0, 0)
    /\ UNCHANGED <<remoteCats, nextId, submissions, args, a_id, run, all_idx, sdk,
                   cats0, coms0, reconciled>>
    /\ UNCHANGED sheetvars

\* lines 359-363: codepost.rubric_comment.create, in the order of the set
CreateNewComment ==
    /\ pc = "create_comments"
    /\ \E name \in new_names :
          LET c_name == Get(CommentCategories(rubric), name)
          IN IF c_name \notin Keys(categories)
             THEN Raise("raised:KeyError") /\ UNCHANGED <<remoteComs, nextId, ops>>
             ELSE LET cid == Get(categories, c_name).id
                      comment_info == Get(RubricComments(rubric), name)
                      nn == new_names \ {name}
                  IN /\ \E c \in remoteCats : c.id = cid
                     /\ remoteComs' = remoteComs \cup {Created(nextId, cid, comment_info)}
                     /\ nextId' = nextId + 1
                     /\ ops' = Append(ops, Op("create_comment", nextId, name, cid,
                                              comment_info))
                     /\ Continue(IF nn # {} THEN "create_comments" ELSE "return",
                                 categories, old_comments, {}, nn, {}, <<>>, idx, 0, 0)
    /\ UNCHANGED <<remoteCats, submissions, args, a_id, run, all_idx, sdk, cats0,
                   coms0, reconciled>>
    /\ UNCHANGED sheetvars

----------------------------------------------------------------------------
(* wipe_and_create_assignment_rubric *)

\* mutant: the comments of a rubric item are passed over
AfterCommentNone(i, j) ==
    IF i < Len(rubric) THEN "w_create_category" ELSE "return"

\* where the function goes on after the comments of rubric item i from
\* position j
AfterComment(i, j) ==
    IF j <= Len(rubric[i].comments) THEN "w_create_comments"
    ELSE IF i < Len(rubric) THEN "w_create_category" ELSE "return"

\* lines 212-228: the guard, then the list the wipe loop iterates
WipeCheckSubmissions ==
    /\ pc = "w_guard"
    /\ reconciled' = Append(reconciled, <<a_id, "wipe">>)
    /\ IF Refuses
       THEN Return("unsuccessful")
       ELSE LET cs == CategoryObjects(a_id)
            IN Continue(IF cs # <<>> THEN "w_delete"
                        ELSE IF rubric # <<>> THEN "w_create_category" ELSE "return",
                        cs, <<>>, {}, {}, {}, <<>>, 1, 0, 0)
    /\ UNCHANGED <<remoteCats, remoteComs, nextId, submissions, args, a_id, run,
                   all_idx, sdk, ops, cats0, coms0>>
    /\ UNCHANGED sheetvars

\* lines 228-230: category.delete(); the platform deletes its comments
WipeDeleteCategory ==
    /\ pc = "w_delete"
    /\ idx <= Len(categories)
    /\ LET cat == categories[idx][2]
       IN /\ \E c \in remoteCats : c.id = cat.id
          /\ remoteCats' = {c \in remoteCats : c.id # cat.id}
          /\ remoteComs' = {m \in remoteComs : m.category # cat.id}
          /\ ops' = Append(ops, Op("delete_category", cat.id, cat.name, None, None))
          /\ IF idx < Len(categories)
             THEN Continue("w_delete", categories, <<>>, {}, {}, {}, <<>>, idx + 1, 0, 0)
             ELSE Continue(IF rubric # <<>> THEN "w_create_category" ELSE "return",
                           <<>>, <<>>, {}, {}, {}, <<>>, 1, 0, 0)
    /\ UNCHANGED <<nextId, submissions, args, a_id, run, all_idx, sdk, cats0, coms0,
                   reconciled>>
    /\ UNCHANGED sheetvars

\* lines 235-245: codepost.rubric_category.create for rubric item idx
WipeCreateCategory ==
    /\ pc = "w_create_category"
    /\ idx <= Len(rubric)
    /\ LET item == rubric[idx]
           sort_key == idx - 1
       IN /\ remoteCats' = remoteCats \cup
                 {[id |-> nextId, name |-> item.name, assignment |-> a_id,
                   pointLimit |-> item.max_points, sortKey |-> IntV(sort_key)]}
          /\ nextId' = nextId + 1
          /\ ops' = Append(ops, Op("create_category", nextId, item.name, a_id,
                                   [pointLimit |-> item.max_points,
                                    sortKey |-> IntV(sort_key)]))
          /\ LET p == AfterComment(idx, 1)
             IN Continue(p, <<>>, <<>>, {}, {}, {}, <<>>,
                         IF p = "w_create_category" THEN idx + 1 ELSE idx, 1, nextId)
    /\ UNCHANGED <<remoteComs, submissions, args, a_id, run, all_idx, sdk, cats0,
                   coms0, reconciled>>
    /\ UNCHANGED sheetvars

\* lines 248-249: codepost.rubric_comment.create(category=c_id, **comment)
WipeCreateComment ==
    /\ pc = "w_create_comments"
    /\ jdx <= Len(rubric[idx].comments)
    /\ LET comment == rubric[idx].comments[jdx]
       IN /\ \E c \in remoteCats : c.id = c_id
          /\ remoteComs' = remoteComs \cup {Created(nextId, c_id, comment)}
          /\ nextId' = nextId + 1
          /\ ops' = Append(ops, Op("create_comment", nextId, comment.name, c_id,
                                   comment))
          /\ LET p == AfterComment(idx, jdx + 1)
             IN Continue(p, <<>>, <<>>, {}, {}, {}, <<>>,
                         IF p = "w_create_category" THEN idx + 1 ELSE idx,
                         jdx + 1, c_id)
    /\ UNCHANGED <<remoteCats, submissions, args, a_id, run, all_idx, sdk, cats0,
                   coms0, reconciled>>
    /\ UNCHANGED sheetvars

----------------------------------------------------------------------------
(* create_all_rubrics *)

\* the number of parameters of each def
Arity(f) ==
    IF f = "create_assignment_rubric" THEN 4
    ELSE IF f = "wipe_and_create_assignment_rubric" THEN 3
    ELSE 0

\* line 385: the function called for every item, and its positional arguments
Callee == "create_assignment_rubric"

CallArgs(a) == <<a, rubric, override_rubric, delete_missing, wipe_existing>>

\* lines 384-387: one iteration of the loop over rubrics.items(), or its end
CreateAllRubrics ==
    /\ pc = "all_loop"
    /\ IF all_idx > Len(rubricIds)
       THEN /\ pc' = "done"
            /\ outcome' = "successful"
            /\ UNCHANGED <<a_id, all_idx, locals>>
       ELSE IF Len(CallArgs(rubricIds[all_idx])) > Arity(Callee)
            THEN Raise("raised:TypeError") /\ UNCHANGED <<a_id, all_idx>>
            ELSE /\ pc' = IF Callee = "create_assignment_rubric"
                          THEN "guard" ELSE "w_guard"
                 /\ a_id' = rubricIds[all_idx]
                 /\ all_idx' = all_idx + 1
                 /\ UNCHANGED <<outcome, locals>>
    /\ UNCHANGED <<remoteCats, remoteComs, nextId, submissions, args, run, sdk,
                   ops, cats0, coms0, reconciled>>
    /\ UNCHANGED sheetvars

----------------------------------------------------------------------------
(* get_assignment_rubric *)

SHEET_HEADERS ==
    [category |-> "Category", max_points |-> "Max", name |-> "Name",
     tier |-> "Tier", point_delta |-> "Points", caption |-> "Grader Caption",
     explanation |-> "Explanation", instructions |-> "Instructions",
     is_template |-> "Template?"]

TEMPLATE_YES == {"x", "yes"}

\* TIER_FMT.format(tier=tier, text=text)
TierFmt(tier, text) ==
    [t |-> "str", fmt |-> "\\[T{tier}\\] {text}", tier |-> tier, text |-> text]

AllHeaders ==
    {SHEET_HEADERS.category, SHEET_HEADERS.max_points, SHEET_HEADERS.name,
     SHEET_HEADERS.tier, SHEET_HEADERS.point_delta, SHEET_HEADERS.caption,
     SHEET_HEADERS.explanation, SHEET_HEADERS.instructions,
     SHEET_HEADERS.is_template}

\* the header rows of the worksheets: every column, or every column but one
HeaderSets ==
    {AllHeaders} \cup
    {AllHeaders \ {h} : h \in {SHEET_HEADERS.category, SHEET_HEADERS.max_points,
                               SHEET_HEADERS.point_delta, SHEET_HEADERS.caption}}

\* a row has no key for a column the worksheet does not have
Absent == [t |-> "absent"]

\* the cells of the k-th row under header h: a blank cell is '', a cell
\* that holds a number is that number, any other cell is its text
Cells(h, k) ==
    IF h = SHEET_HEADERS.category THEN {StrV(""), StrV("X"), StrV("Y")}
    ELSE IF h = SHEET_HEADERS.max_points THEN {StrV(""), IntV(10), StrV("abc")}
    ELSE IF h = SHEET_HEADERS.name THEN {StrV(<<"A", "B", "C">>[k])}
    ELSE IF h = SHEET_HEADERS.tier THEN {StrV(""), IntV(2)}
    ELSE IF h = SHEET_HEADERS.point_delta THEN {StrV(""), IntV(5), StrV("abc")}
    ELSE IF h = SHEET_HEADERS.caption THEN {StrV(""), StrV("caption")}
    ELSE IF h = SHEET_HEADERS.is_template THEN {StrV(""), StrV("Yes")}
    ELSE {StrV("")}

Col(H, h, k) == IF h \in H THEN Cells(h, k) ELSE {Absent}

\* the k-th record of worksheet.get_records(head=2), the header row being H
Rows(H, k) ==
    {(SHEET_HEADERS.category :> c) @@ (SHEET_HEADERS.max_points :> m)
        @@ (SHEET_HEADERS.name :> n) @@ (SHEET_HEADERS.tier :> ti)
        @@ (SHEET_HEADERS.point_delta :> p) @@ (SHEET_HEADERS.caption :> x)
        @@ (SHEET_HEADERS.explanation :> e) @@ (SHEET_HEADERS.instructions :> i)
        @@ (SHEET_HEADERS.is_template :> y) :
        c \in Col(H, SHEET_HEADERS.category, k),
        m \in Col(H, SHEET_HEADERS.max_points, k),
        n \in Col(H, SHEET_HEADERS.name, k),
        ti \in Col(H, SHEET_HEADERS.tier, k),
        p \in Col(H, SHEET_HEADERS.point_delta, k),
        x \in Col(H, SHEET_HEADERS.caption, k),
        e \in Col(H, SHEET_HEADERS.explanation, k),
        i \in Col(H, SHEET_HEADERS.instructions, k),
        y \in Col(H, SHEET_HEADERS.is_template, k)}

\* row.get(h, default)
RowGet(r, h, default) == IF r[h] = Absent THEN default ELSE r[h]

\* the integers that the strings of the model spell
Numerals == ("1" :> 1) @@ ("2" :> 2) @@ ("7" :> 7) @@ ("10" :> 10)

\* int(x): the integer, or the exception Python raises
PyInt(x) ==
    IF x.t = "int" THEN x
    ELSE IF x.t = "str"
         THEN IF x.v \in DOMAIN Numerals THEN IntV(Numerals[x.v])
              ELSE [t |-> "raised:ValueError"]
         ELSE [t |-> "raised:TypeError"]

\* mutant: the number is not negated
MinusOneNot(x) == x

\* -1 * x: the negated number; a str repeated -1 times is ''
MinusOne(x) == IF x.t = "int" THEN IntV(0 - x.v) ELSE StrV("")

\* template.lower()
Lower(x) == IF x = "Yes" THEN "yes" ELSE IF x = "X" THEN "x" ELSE x

\* lines 70-119: one iteration of the loop over values, on the rubric rub;
\* the rubric after it, the comment it appended, the exception it raised
ParsedRow(rub, r) ==
    LET category == RowGet(r, SHEET_HEADERS.category, None)
    IN IF category = None \/ category = StrV("")
       THEN [raised |-> "", rubric |-> rub, emitted |-> None]
       ELSE LET is_new == category.v \notin RubricKeys(rub)
                max_cell == RowGet(r, SHEET_HEADERS.max_points, None)
                max_points == IF max_cell = StrV("") THEN None
                              ELSE MinusOne(PyInt(max_cell))
                rub1 == IF is_new
                        THEN Append(rub, [name |-> category.v,
                                          max_points |-> max_points,
                                          comments |-> <<>>])
                        ELSE rub
                name == RowGet(r, SHEET_HEADERS.name, None)
                tier == RowGet(r, SHEET_HEADERS.tier, None)
                points == MinusOne(RowGet(r, SHEET_HEADERS.point_delta, IntV(0)))
                text == RowGet(r, SHEET_HEADERS.caption, None)
                explanation == RowGet(r, SHEET_HEADERS.explanation, None)
                instructions == RowGet(r, SHEET_HEADERS.instructions, None)
                template == RowGet(r, SHEET_HEADERS.is_template, StrV(""))
                is_template == Lower(template.v) \in TEMPLATE_YES
                comment == [name |-> name,
                            text |-> IF tier # None /\ tier # StrV("")
                                     THEN TierFmt(tier, text) ELSE text,
                            pointDelta |-> points,
                            explanation |-> explanation,
                            instructionText |-> instructions,
                            templateTextOn |-> is_template]
                k == CHOOSE i \in 1..Len(rub1) : rub1[i].name = category.v
            IN IF is_new /\ max_cell # StrV("") /\ PyInt(max_cell).t # "int"
               THEN [raised |-> PyInt(max_cell).t, rubric |-> rub,
                     emitted |-> None]
               ELSE IF text = None
               THEN [raised |-> "", rubric |-> rub1, emitted |-> None]
               ELSE [raised |-> "",
                     rubric |-> [rub1 EXCEPT ![k].comments = Append(@, comment)],
                     emitted |-> comment]

\* what get_assignment_rubric leaves alone
reconcilevars ==
    <<remoteCats, remoteComs, nextId, submissions, rubricIds, override_rubric,
      delete_missing, wipe_existing, entry, a_id, run, all_idx, sdk, ops,
      cats0, coms0, reconciled>>

\* lines 70-119: the next row of values
ParseRow ==
    /\ pc = "p_rows"
    /\ n_rows < MaxRows
    /\ \E r \in Rows(headers, n_rows + 1) :
          LET res == ParsedRow(rubric, r)
          IN /\ row' = r
             /\ n_rows' = n_rows + 1
             /\ emitted' = res.emitted
             /\ rubric' = res.rubric
             /\ IF res.raised # ""
                THEN Raise(res.raised)
                ELSE pc' = pc /\ outcome' = outcome /\ UNCHANGED locals
    /\ UNCHANGED reconcilevars
    /\ UNCHANGED <<testing, start_sheet, end_sheet, index, a_ids, data, read,
                   failed, headers, argv>>

\* line 121: values has no more rows
ParseReturn ==
    /\ pc = "p_rows"
    /\ pc' = "done"
    /\ outcome' = "successful"
    /\ UNCHANGED <<rubric, locals, reconcilevars, sheetvars>>

InitParser ==
    /\ entry = "get_assignment_rubric"
    /\ rubric = <<>>
    /\ InitPlatform([n \in ComNames |-> "-"], {})
    /\ rubricIds = <<>>
    /\ wipe_existing = FALSE
    /\ delete_missing = FALSE
    /\ override_rubric = FALSE
    /\ submissions = {}
    /\ a_id = 0
    /\ pc = "p_rows"
    /\ outcome = "running"
    /\ run = 1
    /\ all_idx = 1
    /\ InitLocals
    /\ sdk = "unread"
    /\ ops = <<>>
    /\ cats0 = remoteCats
    /\ coms0 = remoteComs
    /\ reconciled = <<>>
    /\ testing = FALSE
    /\ start_sheet = None
    /\ end_sheet = None
    /\ index = 0
    /\ a_ids = {}
    /\ data = <<>>
    /\ read = <<>>
    /\ failed = "none"
    /\ headers \in HeaderSets
    /\ row = <<>>
    /\ n_rows = 0
    /\ emitted = None
    /\ argv = <<start_sheet, end_sheet>>

NextParser ==
    \/ ParseRow
    \/ ParseReturn

SpecParser == InitParser /\ [][NextParser]_vars

----------------------------------------------------------------------------
(* main and get_all_rubric_comments *)

\* the ids of the assignments of the course
CourseAssignments == {1, 2}

\* what log_in_codepost, set_up_service_account, get_course / get_126_course
\* and open_sheet (module shared) give back: their result, or the value
\* that reports a failure (False, None)
SetupResults == {"ok", "failed"}

\* mutant: main goes on after a failed setup step
ReturnsEarlyNever(result) == FALSE

\* lines 433, 438, 448, 453: if not success / if ... is None: return
ReturnsEarly(result) == result = "failed"

\* the command line: start_sheet and end_sheet are optional, in this order
SheetArgs ==
    {<<None, None>>}
        \cup {<<IntV(s), None>> : s \in 1..MaxSheet}
        \cup {<<IntV(s), IntV(e)>> : s \in 1..MaxSheet, e \in 1..MaxSheet}

\* worksheet.get_cell('A1').value: the text of the cell
A1Values == {StrV(""), StrV("abc"), StrV("1"), StrV("2"), StrV("7")}

\* the rubrics get_assignment_rubric returns
SheetRubrics == {<<>>, MkRubric(<<"X">>, <<<<"A">>>>, 0)}

\* line 165: get_assignment_rubric(worksheet) returns a rubric or raises
ParseResults ==
    {[raised |-> "", rubric |-> r] : r \in SheetRubrics}
        \cup {[raised |-> "raised:ValueError", rubric |-> <<>>]}

\* what the steps of main before the tables leave alone
mainvars ==
    <<remoteCats, remoteComs, nextId, submissions, args, a_id, run, all_idx,
      sdk, ops, cats0, coms0, reconciled, locals, testing, start_sheet,
      end_sheet, index, a_ids, data, read, headers, row, n_rows, emitted,
      argv>>

\* one setup step of main at p: the call, the test of its result, the return
SetupStep(p, step, next) ==
    /\ pc = p
    /\ \E result \in SetupResults :
          /\ failed' = IF result = "failed" /\ failed = "none" THEN step ELSE failed
          /\ IF ReturnsEarly(result)
             THEN pc' = "done" /\ outcome' = "returned"
             ELSE pc' = next /\ outcome' = outcome
    /\ UNCHANGED mainvars

\* lines 431-434
LogInCodepost == SetupStep("m_login", "log_in_codepost", "m_service")

\* lines 436-439
SetUpServiceAccount == SetupStep("m_service", "set_up_service_account", "m_course")

\* lines 441-449
GetCourse == SetupStep("m_course", "get_course", "m_sheet")

\* lines 451-454
OpenSheet == SetupStep("m_sheet", "open_sheet", "m_tables")

\* lines 456-457: the first table main asks for
StartSheet(t, s, e) == IF t /\ s = None /\ e = None THEN IntV(1) ELSE s

\* lines 142-143: the last table
EndSheet(s, e) == IF e = None THEN s ELSE e

\* the call of create_all_rubrics(rubrics, ...) at line 460
ToCreateAll(d) == pc' = "all_loop" /\ rubricIds' = KeyList(d)

\* lines 456-458, 142-150: the call of get_all_rubric_comments, up to the
\* range of the loop
GetAllRubricComments ==
    /\ pc = "m_tables"
    /\ LET start == StartSheet(testing, start_sheet, end_sheet)
           end == EndSheet(start, end_sheet)
       IN /\ start_sheet' = start
          /\ end_sheet' = end
          /\ IF start = None \/ end = None
             THEN /\ Raise("raised:TypeError")
                  /\ UNCHANGED <<index, a_ids, data, rubricIds>>
             ELSE /\ index' = start.v
                  /\ a_ids' = CourseAssignments
                  /\ data' = <<>>
                  /\ IF start.v <= end.v
                     THEN pc' = "t_loop" /\ rubricIds' = rubricIds
                     ELSE ToCreateAll(<<>>)
                  /\ outcome' = outcome
                  /\ UNCHANGED locals
    /\ UNCHANGED <<remoteCats, remoteComs, nextId, submissions, rubric,
                   override_rubric, delete_missing, wipe_existing, entry, a_id,
                   run, all_idx, sdk, ops, cats0, coms0, reconciled, testing,
                   read, failed, headers, row, n_rows, emitted, argv>>

\* where the loop over the tables goes on after the table at i with dict d
AfterTable(i, d) ==
    IF i < end_sheet.v
    THEN pc' = "t_loop" /\ rubricIds' = rubricIds
    ELSE ToCreateAll(d)

\* mutant: a table is skipped only when its A1 is not an integer
SkipsNonIntegers(n, ids) == n.t = "raised:ValueError"

\* lines 154-160: except ValueError: continue; if a_id not in a_ids: continue
Skips(n, ids) == n.t = "raised:ValueError" \/ (n.t = "int" /\ n.v \notin ids)

\* lines 150-168: one iteration of the loop over range(start_sheet,
\* end_sheet + 1)
ReadTable ==
    /\ pc = "t_loop"
    /\ index <= end_sheet.v
    /\ index' = index + 1
    /\ \E a1 \in A1Values :
          LET n == PyInt(a1)
          IN IF Skips(n, a_ids)
             THEN /\ read' = Append(read, [index |-> index, a1 |-> a1,
                                           result |-> "skipped"])
                  /\ AfterTable(index, data)
                  /\ outcome' = outcome
                  /\ UNCHANGED <<a_ids, data, locals>>
             ELSE IF n.t # "int"
             THEN /\ read' = Append(read, [index |-> index, a1 |-> a1,
                                           result |-> "raised"])
                  /\ Raise(n.t)
                  /\ UNCHANGED <<a_ids, data, rubricIds>>
             ELSE \E res \in ParseResults :
                     IF res.raised # ""
                     THEN /\ read' = Append(read, [index |-> index, a1 |-> a1,
                                                   result |-> "raised"])
                          /\ Raise(res.raised)
                          /\ UNCHANGED <<a_ids, data, rubricIds>>
                     ELSE /\ read' = Append(read, [index |-> index, a1 |-> a1,
                                                   result |-> "routed"])
                          /\ data' = Put(data, n.v, res.rubric)
                          /\ a_ids' = a_ids \ {n.v}
                          /\ AfterTable(index, Put(data, n.v, res.rubric))
                          /\ outcome' = outcome
                          /\ UNCHANGED locals
    /\ UNCHANGED <<remoteCats, remoteComs, nextId, submissions, rubric,
                   override_rubric, delete_missing, wipe_existing, entry, a_id,
                   run, all_idx, sdk, ops, cats0, coms0, reconciled, testing,
                   start_sheet, end_sheet, failed, headers, row, n_rows,
                   emitted, argv>>

InitMain ==
    /\ entry = "main"
    /\ rubric = <<>>
    /\ InitPlatform([n \in ComNames |-> "-"], CatNames)
    /\ rubricIds = <<>>
    /\ wipe_existing \in BOOLEAN
    /\ delete_missing \in BOOLEAN
    /\ override_rubric \in BOOLEAN
    /\ submissions = {}
    /\ a_id = 0
    /\ pc = "m_login"
    /\ outcome = "running"
    /\ run = 1
    /\ all_idx = 1
    /\ InitLocals
    /\ sdk = "unread"
    /\ ops = <<>>
    /\ cats0 = remoteCats
    /\ coms0 = remoteComs
    /\ reconciled = <<>>
    /\ testing \in BOOLEAN
    /\ \E se \in SheetArgs : start_sheet = se[1] /\ end_sheet = se[2]
    /\ index = 0
    /\ a_ids = {}
    /\ data = <<>>
    /\ read = <<>>
    /\ failed = "none"
    /\ headers = {}
    /\ row = <<>>
    /\ n_rows = 0
    /\ emitted = None
    /\ argv = <<start_sheet, end_sheet>>

\* main, every remote call of which succeeds
NextMain ==
    \/ LogInCodepost
    \/ SetUpServiceAccount
    \/ GetCourse
    \/ OpenSheet
    \/ GetAllRubricComments
    \/ ReadTable
    \/ CreateAllRubrics

SpecMain == InitMain /\ [][NextMain]_vars

----------------------------------------------------------------------------
(* The environment *)

\* the remote call the function is about to make is rejected: the client
\* raises, and the exception leaves the function
RemoteFailure ==
    /\ pc \notin {"done", "all_loop"}
    /\ Raise("raised:remote")
    /\ UNCHANGED <<remoteCats, remoteComs, nextId, submissions, args, a_id, run,
                   all_idx, sdk, ops, cats0, coms0, reconciled>>
    /\ UNCHANGED sheetvars

\* the same call again, with the same arguments, after a successful one
RunAgain ==
    /\ pc = "done"
    /\ outcome = "successful"
    /\ entry # "create_all_rubrics"
    /\ run < MaxRuns
    /\ run' = run + 1
    /\ pc' = IF entry = "create_assignment_rubric" THEN "guard" ELSE "w_guard"
    /\ outcome' = "running"
    /\ ops' = <<>>
    /\ cats0' = remoteCats
    /\ coms0' = remoteComs
    /\ reconciled' = <<>>
    /\ UNCHANGED <<remoteCats, remoteComs, nextId, submissions, args, a_id,
                   all_idx, sdk, locals>>
    /\ UNCHANGED sheetvars

\* one call, every remote call of which succeeds
Next ==
    \/ CheckSubmissions
    \/ GetExisting
    \/ DeleteMissingComment
    \/ DeleteEmptyCategory
    \/ CreateMissingCategory
    \/ UpdateExistingComment
    \/ CreateNewComment
    \/ WipeCheckSubmissions
    \/ WipeDeleteCategory
    \/ WipeCreateCategory
    \/ WipeCreateComment
    \/ CreateAllRubrics

Spec == Init /\ [][Next]_vars

\* one call, any remote call of which may be rejected
NextFail ==
    \/ Next
    \/ RemoteFailure

SpecFail == Init /\ [][NextFail]_vars

\* create_assignment_rubric called again and again with the same arguments
NextTwice ==
    \/ CheckSubmissions
    \/ GetExisting
    \/ DeleteMissingComment
    \/ DeleteEmptyCategory
    \/ CreateMissingCategory
    \/ UpdateExistingComment
    \/ CreateNewComment
    \/ RunAgain

SpecTwice == InitIncremental /\ [][NextTwice]_vars

----------------------------------------------------------------------------
(* What the claims speak of *)

Incremental == entry = "create_assignment_rubric"

Wipe == entry = "wipe_and_create_assignment_rubric"

\* the call returned after its last statement
Successful == pc = "done" /\ outcome = "successful"

\* the assignment's categories and comments when the call began
Cats0 == {c \in cats0 : c.assignment = a_id}

Coms0 == {m \in coms0 : \E c \in Cats0 : m.category = c.id}

\* observed and target comment names
ObservedNames == {m.name : m \in Coms0}

TargetNames ==
    UNION {{rubric[i].comments[j].name : j \in 1..Len(rubric[i].comments)}
           : i \in 1..Len(rubric)}

\* the positions in ops of the operations of a kind on a name or an id
OpsOn(kind, name) ==
    {i \in 1..Len(ops) : ops[i].op = kind /\ ops[i].name = name}

OpsAt(kind, id) == {i \in 1..Len(ops) : ops[i].op = kind /\ ops[i].id = id}

OpsOf(kind) == {i \in 1..Len(ops) : ops[i].op = kind}

----------------------------------------------------------------------------
(* C1..C10 *)

\* C1: in both modes, when the assignment has a submission and
\* override_rubric is false, the call issues no create, update or delete and
\* the platform's rubric is what it was when the call began.
C1_GuardNoOp ==
    ((Incremental \/ Wipe) /\ a_id \in submissions /\ ~override_rubric)
        => /\ ops = <<>>
           /\ remoteCats = cats0
           /\ remoteComs = coms0
           /\ nextId = FirstNewId

\* a refused call on a rubric that differs from the (non-empty) sheet
C1_Witness ==
    /\ Wipe
    /\ a_id \in submissions /\ ~override_rubric
    /\ pc = "done" /\ outcome = "unsuccessful"
    /\ rubric # <<>>
    /\ Coms0 # {}

\* C2: create_all_rubrics reconciles every assignment of the mapping exactly
\* once, with the wipe algorithm when wipe_existing is true and with the
\* incremental one when it is false.
C2_ModeSelection ==
    (entry = "create_all_rubrics" /\ pc = "done")
        => /\ Len(reconciled) = Len(rubricIds)
           /\ \A i \in 1..Len(rubricIds) :
                 i <= Len(reconciled) =>
                     reconciled[i] = <<rubricIds[i],
                                       IF wipe_existing THEN "wipe" ELSE "incremental">>

\* C3: incremental mode with delete_missing, guard passed: the comment
\* operations issued are exactly one delete for each observed name not in
\* the target, one create for each target name not observed, and one update
\* for each name in both.
C3_SetDiff ==
    (Incremental /\ delete_missing /\ Successful /\ ~(a_id \in submissions /\ ~override_rubric))
        => \A n \in ComNames :
              /\ Cardinality(OpsOn("delete_comment", n)) =
                     IF n \in ObservedNames \ TargetNames THEN 1 ELSE 0
              /\ Cardinality(OpsOn("create_comment", n)) =
                     IF n \in TargetNames \ ObservedNames THEN 1 ELSE 0
              /\ Cardinality(OpsOn("update_comment", n)) =
                     IF n \in ObservedNames \cap TargetNames THEN 1 ELSE 0

\* a finished run that deleted, created and updated a comment
C3_Witness ==
    /\ Incremental /\ delete_missing /\ Successful
    /\ ObservedNames \ TargetNames # {}
    /\ TargetNames \ ObservedNames # {}
    /\ ObservedNames \cap TargetNames # {}
    /\ OpsOf("delete_comment") # {}
    /\ OpsOf("create_comment") # {}
    /\ OpsOf("update_comment") # {}

\* C4 (as amended): a second incremental run with the same arguments issues
\* no create and no delete; it issues exactly one update for each target
\* comment name.
C4_SecondRunOnlyUpdates ==
    (Incremental /\ run >= 2)
        => /\ \A i \in 1..Len(ops) : ops[i].op = "update_comment"
           /\ Successful =>
                 \A n \in ComNames :
                    Cardinality(OpsOn("update_comment", n)) =
                        IF n \in TargetNames THEN 1 ELSE 0

\* C4 (as stated): the second run issues no remote operation at all.
C4_SecondRunEmpty == (Incremental /\ run >= 2 /\ Successful) => ops = <<>>

\* a second run finished, after a first run that created something
C4_Witness ==
    /\ Incremental /\ run = 2 /\ Successful
    /\ nextId > FirstNewId
    /\ OpsOf("update_comment") # {}

\* C5: incremental mode without delete_missing issues no delete; every
\* category and comment the platform had when the call began is still there
\* under the same id.
C5_NoDelete ==
    (Incremental /\ ~delete_missing)
        => /\ OpsOf("delete_comment") = {}
           /\ OpsOf("delete_category") = {}
           /\ \A c \in Cats0 : c \in remoteCats
           /\ \A m \in Coms0 : \E m2 \in remoteComs : m2.id = m.id

\* a finished run that left a comment the sheet does not have
C5_Witness ==
    /\ Incremental /\ ~delete_missing /\ Successful
    /\ ObservedNames \ TargetNames # {}
    /\ ops # <<>>

\* C6: incremental mode with delete_missing: an observed category all of
\* whose comments this run deletes is deleted too, after the deletes of its
\* comments.
C6_Cascade ==
    (Incremental /\ delete_missing /\ Successful)
        => \A c \in Cats0 :
              LET ms == {m \in Coms0 : m.category = c.id}
              IN (ms # {} /\ \A m \in ms : m.name \notin TargetNames)
                    => \E i \in OpsAt("delete_category", c.id) :
                          \A m \in ms : \A j \in OpsAt("delete_comment", m.id) : j < i

\* C7: incremental mode deletes a category only under delete_missing, after
\* a comment deletion, and only when every comment it held has been deleted
\* by this run; a category that still holds a comment is not deleted.
C7_NonEmptyKept ==
    Incremental
        => \A i \in OpsOf("delete_category") :
              /\ delete_missing
              /\ \E j \in OpsOf("delete_comment") : j < i
              /\ \A m \in Coms0 :
                    m.category = ops[i].id
                        => \E j \in OpsAt("delete_comment", m.id) : j < i

\* a category the sheet does not name lost a comment, kept another, and is
\* still on the platform when the run has finished
C7_Witness ==
    /\ Incremental /\ delete_missing /\ Successful
    /\ \E c \in Cats0 :
          /\ c.name \notin RubricKeys(rubric)
          /\ c \in remoteCats
          /\ \E m \in Coms0 : m.category = c.id /\ OpsAt("delete_comment", m.id) # {}
          /\ \E m \in remoteComs : m.category = c.id

\* C8 (as amended): a category that held no comment when the run began is
\* deleted by a finished incremental run exactly when delete_missing is set
\* and some observed comment name is absent from the sheet.
C8_EmptyDeleted ==
    (Incremental /\ Successful)
        => \A c \in Cats0 :
              ({m \in Coms0 : m.category = c.id} = {})
                  => ((OpsAt("delete_category", c.id) # {})
                         <=> (delete_missing /\ ObservedNames \ TargetNames # {}))

\* C8 (as stated): a category that was already empty is not deleted.
C8_EmptyKept ==
    (Incremental /\ delete_missing /\ Successful)
        => \A c \in Cats0 :
              ({m \in Coms0 : m.category = c.id} = {})
                  => OpsAt("delete_category", c.id) = {}

\* an already empty category was deleted while another lost a comment
C8_Witness ==
    /\ Incremental /\ delete_missing /\ Successful
    /\ \E c \in Cats0 :
          /\ {m \in Coms0 : m.category = c.id} = {}
          /\ OpsAt("delete_category", c.id) # {}
          /\ c \notin remoteCats
    /\ OpsOf("delete_comment") # {}

\* C9: every comment whose name is in the sheet and on the platform keeps
\* its id and its category through an incremental run, whatever category
\* the sheet puts the name in.
C9_BindingKept ==
    Incremental
        => \A m \in Coms0 :
              m.name \in TargetNames
                  => /\ \E m2 \in remoteComs :
                           m2.id = m.id /\ m2.category = m.category /\ m2.name = m.name
                     /\ \E c \in remoteCats : c.id = m.category /\ c \in Cats0

\* a comment was updated whose category the sheet names differently
C9_Witness ==
    /\ Incremental /\ Successful
    /\ \E m \in Coms0 :
          /\ m.name \in TargetNames
          /\ OpsAt("update_comment", m.id) # {}
          /\ \E c \in Cats0 :
                c.id = m.category /\ c.name # Get(CommentCategories(rubric), m.name)

\* the last comment of the sheet with the name n
LastTarget(n) ==
    LET f == Flat(rubric, "comment")
        k == CHOOSE i \in 1..Len(f) :
                f[i][1] = n /\ \A j \in (i + 1)..Len(f) : f[j][1] # n
    IN f[k][2]

\* C10: after a finished incremental run, every comment whose name is in
\* the sheet and was on the platform has the text, pointDelta, explanation,
\* instructionText and templateTextOn of the sheet's comment of that name.
C10_UpdateInPlace ==
    (Incremental /\ Successful)
        => \A m \in Coms0 :
              m.name \in TargetNames
                  => \E m2 \in remoteComs :
                        /\ m2.id = m.id
                        /\ m2.text = LastTarget(m.name).text
                        /\ m2.pointDelta = LastTarget(m.name).pointDelta
                        /\ m2.explanation = LastTarget(m.name).explanation
                        /\ m2.instructionText = LastTarget(m.name).instructionText
                        /\ m2.templateTextOn = LastTarget(m.name).templateTextOn

\* a comment was updated, and its fields were not the sheet's before
C10_Witness ==
    /\ Incremental /\ Successful
    /\ \E m \in Coms0 :
          /\ m.name \in TargetNames
          /\ OpsAt("update_comment", m.id) # {}
          /\ m.text # LastTarget(m.name).text
          /\ m.pointDelta # LastTarget(m.name).pointDelta

----------------------------------------------------------------------------
(* C11..C20 *)

\* the call passed the submissions guard
Passed == ~(a_id \in submissions /\ ~override_rubric)

\* the comments the sheet lists under the category named c
CommentsUnder(c) ==
    IF c \in RubricKeys(rubric)
    THEN {RubricItem(rubric, c).comments[j]
             : j \in 1..Len(RubricItem(rubric, c).comments)}
    ELSE {}

\* C11: in both modes every create-comment comes after the create-category
\* of the category it names (when this run created that category), and it
\* names the category under which the sheet lists the comment; in
\* incremental mode every create-category comes before every create-comment.
C11_CategoryBeforeComment ==
    (Incremental \/ Wipe)
        => /\ \A i \in OpsOf("create_comment") :
                 /\ \A j \in OpsAt("create_category", ops[i].parent) : j < i
                 /\ \E c \in remoteCats :
                       /\ c.id = ops[i].parent
                       /\ c.assignment = a_id
                       /\ ops[i].info \in CommentsUnder(c.name)
           /\ Incremental
                 => \A i \in OpsOf("create_comment") :
                       \A j \in OpsOf("create_category") : j < i

\* an incremental run created a comment in a category it created and
\* another in a category that was there
C11_Witness ==
    /\ Incremental /\ Successful
    /\ \E i \in OpsOf("create_comment") :
          OpsAt("create_category", ops[i].parent) # {}
    /\ \E i \in OpsOf("create_comment") :
          \E c \in Cats0 : c.id = ops[i].parent

\* C12: a wipe run that passed the guard and finished has deleted every
\* observed category exactly once and created every category and every
\* comment of the sheet exactly once, whatever names the two sides share;
\* wipe mode never updates a comment and never deletes one by itself.
C12_WipeTotal ==
    Wipe
        => /\ OpsOf("update_comment") = {}
           /\ OpsOf("delete_comment") = {}
           /\ (Successful /\ Passed)
                 => /\ \A c \in Cats0 :
                          Cardinality(OpsAt("delete_category", c.id)) = 1
                    /\ Cardinality(OpsOf("delete_category")) = Cardinality(Cats0)
                    /\ \A t \in 1..Len(rubric) :
                          Cardinality(OpsOn("create_category", rubric[t].name)) = 1
                    /\ Cardinality(OpsOf("create_category")) = Len(rubric)
                    /\ LET f == Flat(rubric, "comment")
                       IN /\ \A k \in 1..Len(f) :
                                Cardinality({i \in OpsOf("create_comment") :
                                                ops[i].info = f[k][2]}) = 1
                          /\ Cardinality(OpsOf("create_comment")) = Len(f)

\* a finished wipe of a rubric that shares a comment name and a category
\* name with the sheet
C12_Witness ==
    /\ Wipe /\ Successful /\ Passed
    /\ ObservedNames \cap TargetNames # {}
    /\ \E c \in Cats0 : c.name \in RubricKeys(rubric)
    /\ OpsOf("delete_category") # {}
    /\ OpsOf("create_category") # {}
    /\ OpsOf("create_comment") # {}

\* the names of the sheet for which no create and no update was issued
Unapplied ==
    {n \in TargetNames :
        OpsOn("create_comment", n) \cup OpsOn("update_comment", n) = {}}

\* C13: when one create, update or delete of an incremental run is rejected,
\* that operation alone is skipped and every later one is still applied: at
\* most one name of the sheet is left without its create or update.
C13_FailureTolerated ==
    (Incremental /\ outcome = "raised:remote" /\ ops # <<>>)
        => Cardinality(Unapplied) <= 1

\* C14: when the reconciliation of one assignment fails, create_all_rubrics
\* still reconciles every later assignment of the rubrics mapping.
C14_LaterAssignmentsReconciled ==
    (entry = "create_all_rubrics" /\ pc = "done" /\ Raised)
        => \A i \in 2..Len(rubricIds) :
              \E k \in 1..Len(reconciled) : reconciled[k][1] = rubricIds[i]

\* the ids of the categories and comments that are or were the assignment's
OwnCategoryIds ==
    {c.id : c \in Cats0} \cup {ops[i].id : i \in OpsOf("create_category")}

OwnCommentIds ==
    {m.id : m \in Coms0} \cup {ops[i].id : i \in OpsOf("create_comment")}

\* C15: every remote mutation of a run is on the rubric of the assignment
\* being reconciled, which under create_all_rubrics is a key of the rubrics
\* mapping; the rubric of every other assignment stays what it was.
C15_AssignmentFrame ==
    /\ \A i \in 1..Len(ops) :
          /\ ops[i].op = "create_category" => ops[i].parent = a_id
          /\ ops[i].op = "delete_category" => ops[i].id \in OwnCategoryIds
          /\ ops[i].op = "create_comment" => ops[i].parent \in OwnCategoryIds
          /\ ops[i].op \in {"update_comment", "delete_comment"}
                => ops[i].id \in OwnCommentIds
          /\ entry = "create_all_rubrics"
                => \E k \in 1..Len(rubricIds) : rubricIds[k] = a_id
    /\ {c \in remoteCats : c.assignment # a_id} = {c \in cats0 : c.assignment # a_id}
    /\ \A c \in cats0 :
          c.assignment # a_id
              => {m \in remoteComs : m.category = c.id}
                    = {m \in coms0 : m.category = c.id}

\* a finished run deleted, created and updated in the rubric of its
\* assignment while another assignment has a category and a comment of the
\* same names
C15_Witness ==
    /\ Incremental /\ Successful
    /\ OpsOf("delete_comment") # {}
    /\ OpsOf("create_category") # {}
    /\ OpsOf("create_comment") # {}
    /\ OpsOf("update_comment") # {}
    /\ \E c \in remoteCats :
          /\ c.assignment # a_id
          /\ \E d \in Cats0 : d.name = c.name
          /\ \E m \in remoteComs : m.category = c.id /\ m.name \in ObservedNames

\* C16: when logging in, setting up the service account, getting the course
\* or opening the sheet fails, main returns without raising, having read no
\* table and issued no remote mutation.
C16_SetupFailureSoft ==
    (entry = "main" /\ failed # "none")
        => /\ pc = "done"
           /\ outcome = "returned"
           /\ read = <<>>
           /\ data = <<>>
           /\ reconciled = <<>>
           /\ ops = <<>>
           /\ remoteCats = cats0
           /\ remoteComs = coms0

\* the sheet could not be opened, after the three steps before it succeeded
C16_Witness ==
    /\ entry = "main"
    /\ failed = "open_sheet"
    /\ pc = "done"

\* the cells of the last row
PointsCell == row[SHEET_HEADERS.point_delta]

CategoryCell == row[SHEET_HEADERS.category]

CaptionCell == row[SHEET_HEADERS.caption]

MaxCell == row[SHEET_HEADERS.max_points]

\* get_assignment_rubric has iterated a row that has a category
RowWithCategory ==
    /\ entry = "get_assignment_rubric"
    /\ n_rows > 0
    /\ CategoryCell \notin {Absent, StrV("")}

\* C17: for every row that emits a comment, pointDelta is the integer 0
\* when the Points cell is blank or absent, and otherwise the negation of
\* the number in the cell.
C17_PointDelta ==
    (RowWithCategory /\ emitted # None)
        => /\ PointsCell \in {Absent, StrV("")} => emitted.pointDelta = IntV(0)
           /\ PointsCell.t = "int" => emitted.pointDelta = IntV(0 - PointsCell.v)

\* C18: a row with a category and an empty or missing caption emits no
\* comment, and its category is in the rubric.
C18_EmptyCaption ==
    (RowWithCategory /\ ~Raised /\ CaptionCell \in {Absent, StrV("")})
        => /\ emitted = None
           /\ CategoryCell.v \in RubricKeys(rubric)

\* C19: a row whose Points cell, or whose Max cell when the row introduces
\* its category, holds text that is neither blank nor a number makes
\* get_assignment_rubric raise.
C19_ParseFailure ==
    (/\ RowWithCategory
     /\ \/ PointsCell = StrV("abc")
        \/ MaxCell = StrV("abc") /\ CategoryCell.v \notin RubricKeys(rubric))
        => Raised

\* the A1 of a table spells the id of an assignment of the course
Routable(a1) == PyInt(a1).t = "int" /\ PyInt(a1).v \in CourseAssignments

\* the tables that put an entry in data
Routed == {i \in 1..Len(read) : read[i].result = "routed"}

\* C20: get_all_rubric_comments skips, without raising and without adding
\* an entry to the result, every table whose A1 is not an integer or not
\* the id of an assignment of the course; every key of the result is the id
\* of an assignment of the course, taken from the A1 of a table it read.
\* (When main has raised after such a table, it is create_all_rubrics that
\* raised, on a result that is not empty.)
C20_TableRouting ==
    entry = "main"
        => /\ \A i \in 1..Len(read) :
                 ~Routable(read[i].a1) => read[i].result = "skipped"
           /\ \A k \in Keys(data) \cup {rubricIds[i] : i \in 1..Len(rubricIds)} :
                 /\ k \in CourseAssignments
                 /\ \E i \in Routed : PyInt(read[i].a1) = IntV(k)
           /\ Len(data) = Cardinality(Routed)
           /\ (read # <<>> /\ ~Routable(read[Len(read)].a1) /\ Raised)
                 => rubricIds # <<>> /\ outcome = "raised:TypeError"

\* two tables were skipped, one for an A1 that is no integer and one for an
\* integer that is no assignment of the course, and main went on
C20_Witness ==
    /\ entry = "main"
    /\ Len(read) = 2
    /\ read[1].a1 = StrV("abc") /\ read[1].result = "skipped"
    /\ read[2].a1 = StrV("7") /\ read[2].result = "skipped"
    /\ data = <<>>
    /\ pc = "done" /\ outcome = "successful"

----------------------------------------------------------------------------
(* C21..C30 *)

\* the indexes of the tables read
ReadIndexes == {read[i].index : i \in 1..Len(read)}

\* main has ended and every setup step had succeeded
MainEnded == entry = "main" /\ failed = "none" /\ pc = "done"

\* C21: main invoked without start_sheet and end_sheet, with or without
\* --testing, reads the table at index 1; invoked with start_sheet alone it
\* reads exactly the table at start_sheet.
C21_IndexDefaults ==
    MainEnded
        => /\ argv = <<None, None>> => (Len(read) = 1 /\ ReadIndexes = {1})
           /\ (argv[1] # None /\ argv[2] = None)
                 => (Len(read) = 1 /\ ReadIndexes = {argv[1].v})

\* C22: a row of get_assignment_rubric never changes the point cap of a
\* category the rubric already has; the category it introduces gets None
\* when the row's Max cell is blank and the negation of the integer in that
\* cell otherwise.
C22_PointCap ==
    [][(entry = "get_assignment_rubric" /\ n_rows' = n_rows + 1)
          => /\ Len(rubric') >= Len(rubric)
             /\ \A i \in 1..Len(rubric) :
                   /\ rubric'[i].name = rubric[i].name
                   /\ rubric'[i].max_points = rubric[i].max_points
             /\ Len(rubric') > Len(rubric)
                   => LET m == row'[SHEET_HEADERS.max_points]
                          item == rubric'[Len(rubric')]
                      IN /\ Len(rubric') = Len(rubric) + 1
                         /\ item.name = row'[SHEET_HEADERS.category].v
                         /\ \/ m = StrV("") /\ item.max_points = None
                            \/ m.t = "int" /\ item.max_points = IntV(0 - m.v)]_vars

\* the second row of a category whose first row had Max = 10 has a blank
\* Max cell, and the cap is still -10
C22_Witness ==
    /\ entry = "get_assignment_rubric"
    /\ n_rows = 2
    /\ Len(rubric) = 1
    /\ Len(rubric[1].comments) = 2
    /\ rubric[1].max_points = IntV(0 - 10)
    /\ MaxCell = StrV("")

\* the names of the categories created, in the order of their creation
RECURSIVE CreatedCategoryNames(_)
CreatedCategoryNames(os) ==
    IF os = <<>> THEN <<>>
    ELSE (IF Head(os).op = "create_category" THEN <<Head(os).name>> ELSE <<>>)
         \o CreatedCategoryNames(Tail(os))

\* the position of the category named c in the sheet's rubric
RubricIndex(c) == CHOOSE i \in 1..Len(rubric) : rubric[i].name = c

\* C23: in both modes the create-category operations of a run are issued in
\* the order in which the sheet's rubric lists the categories.
C23_CreationOrder ==
    (Incremental \/ Wipe)
        => LET ns == CreatedCategoryNames(ops)
           IN \A i, j \in 1..Len(ns) :
                 i < j => RubricIndex(ns[i]) < RubricIndex(ns[j])

\* the positions in ops of the deletions and of the other operations
Deletions == OpsOf("delete_comment") \cup OpsOf("delete_category")

Constructions ==
    OpsOf("create_category") \cup OpsOf("update_comment") \cup OpsOf("create_comment")

\* C24: in both modes every delete comes before every create and update; in
\* incremental mode every delete-comment comes before every delete-category,
\* and when the emptiness of the categories is tested every observed comment
\* that the sheet does not name has been deleted.
C24_DeleteFirst ==
    (Incremental \/ Wipe)
        => /\ \A i \in Deletions : \A j \in Constructions : i < j
           /\ \A i \in OpsOf("delete_comment") :
                 \A j \in OpsOf("delete_category") : i < j
           /\ (Incremental /\ pc = "delete_categories")
                 => \A m \in Coms0 :
                       m.name \notin TargetNames
                           => OpsAt("delete_comment", m.id) # {}

\* a finished incremental run deleted a comment and a category, created a
\* category and a comment, and updated a comment
C24_Witness ==
    /\ Incremental /\ Successful
    /\ OpsOf("delete_comment") # {}
    /\ OpsOf("delete_category") # {}
    /\ OpsOf("create_category") # {}
    /\ OpsOf("update_comment") # {}
    /\ OpsOf("create_comment") # {}

\* C25: after a successful incremental run, a second run with the same
\* rubric and flags leaves the platform's rubric as it found it: the same
\* categories and comments, with the same ids, bindings and field values.
C25_FixedPoint ==
    (Incremental /\ run >= 2)
        => /\ remoteCats = cats0
           /\ remoteComs = coms0

\* a second run has finished and has updated a comment that the first run
\* created in a category it created
C25_Witness ==
    /\ Incremental /\ run = 2 /\ Successful
    /\ \E i \in OpsOf("update_comment") :
          /\ ops[i].id >= FirstNewId
          /\ \E m \in remoteComs : m.id = ops[i].id /\ m.category >= FirstNewId

\* the names of the comments of the assignment on the platform
RemoteNames ==
    {m.name : m \in {x \in remoteComs :
                        \E c \in remoteCats :
                           c.id = x.category /\ c.assignment = a_id}}

\* C26: after a successful incremental run on a rubric whose comment names
\* are unique, the comment names on the platform are those of the sheet when
\* delete_missing is set, and those of the sheet and of the observed rubric
\* together when it is not.
C26_NameConvergence ==
    (Incremental /\ Successful)
        => RemoteNames = IF delete_missing THEN TargetNames
                         ELSE ObservedNames \cup TargetNames

\* a finished run with delete_missing, a name only the platform had and a
\* name only the sheet had
C26_Witness ==
    /\ Incremental /\ Successful /\ delete_missing
    /\ ObservedNames \ TargetNames # {}
    /\ TargetNames \ ObservedNames # {}
    /\ RemoteNames = TargetNames

\* the target's category names that have a category of the assignment on the
\* platform
RemoteCategoryNames == {c.name : c \in CatsOf(a_id)}

\* the delete_category operations on a category name of the target
CascadedTargets ==
    {i \in OpsOf("delete_category") : ops[i].name \in RubricKeys(rubric)}

\* C27: after a successful run of either mode that passed the guard, every
\* category name of the target exists on the platform for the assignment; a
\* target category the incremental run deleted through the cascade is created
\* again under a new id, no comment is created under the deleted id, and every
\* comment created under the new id is created after the category
C27_TargetCategoriesExist ==
    (Successful /\ Passed /\ (Incremental \/ Wipe))
        => /\ RubricKeys(rubric) \subseteq RemoteCategoryNames
           /\ Incremental =>
                 \A i \in CascadedTargets :
                    /\ \A k \in OpsOf("create_comment") : ops[k].parent # ops[i].id
                    /\ \E j \in OpsOn("create_category", ops[i].name) :
                          /\ j > i
                          /\ ops[j].id # ops[i].id
                          /\ \E c \in CatsOf(a_id) :
                                c.id = ops[j].id /\ c.name = ops[i].name
                          /\ \A k \in OpsOf("create_comment") :
                                ops[k].parent = ops[j].id => k > j

\* a successful incremental run that deleted a target category through the
\* cascade, created it again and created a comment in it
C27_Witness ==
    /\ Incremental /\ Successful /\ Passed
    /\ \E i \in CascadedTargets :
          \E j \in OpsOn("create_category", ops[i].name) :
             /\ j > i
             /\ \E k \in OpsOf("create_comment") : ops[k].parent = ops[j].id

\* C28: at every point of an incremental run, a category the assignment had
\* before the run either is on the platform with the name, point limit and
\* sort key it had, or was deleted by the run; every create_category carries
\* the target's cap of its name under an id no earlier category had, and is
\* issued only for a name whose earlier category, if any, the run deleted
\* before
C28_CategoryFrame ==
    Incremental
        => /\ \A c \in Cats0 :
                 \/ c \in remoteCats
                 \/ /\ OpsAt("delete_category", c.id) # {}
                    /\ \A r \in remoteCats : r.id # c.id
           /\ \A j \in OpsOf("create_category") :
                 /\ ops[j].name \in RubricKeys(rubric)
                 /\ ops[j].info.pointLimit
                       = RubricItem(rubric, ops[j].name).max_points
                 /\ \A c \in cats0 : c.id # ops[j].id
                 /\ \A c \in Cats0 :
                       c.name = ops[j].name
                           => \E i \in OpsAt("delete_category", c.id) : i < j
           /\ \A i \in 1..Len(ops) :
                 ops[i].op \in {"create_category", "delete_category",
                                "create_comment", "update_comment",
                                "delete_comment"}

\* a successful incremental run that updated a comment in a target category
\* which existed before, is still there and keeps a point limit other than
\* the target's cap, while the run created another category with its cap
C28_Witness ==
    /\ Incremental /\ Successful
    /\ OpsOf("create_category") # {}
    /\ \E c \in Cats0 :
          /\ c \in remoteCats
          /\ c.name \in RubricKeys(rubric)
          /\ c.pointLimit # RubricItem(rubric, c.name).max_points
          /\ \E m \in remoteComs :
                m.category = c.id /\ OpsAt("update_comment", m.id) # {}

\* the old comments the update loop still has to visit
ToUpdate == {old_comments[i] : i \in idx..Len(old_comments)}

\* C29: an incremental run never ends in a failed lookup: while it updates,
\* every name still to be updated has an entry in the sheet's comments and
\* its comment is on the platform; while it creates comments, every name
\* still to be created has its sheet category in the categories dict, and
\* that entry is a category the platform holds for the assignment under
\* that name; no comment is created under the id of a deleted category
C29_NoLookupFailure ==
    Incremental
        => /\ outcome # "raised:KeyError"
           /\ pc = "update"
                 => \A e \in ToUpdate :
                       /\ e[1] \in Keys(RubricComments(rubric))
                       /\ \E m \in remoteComs : m.id = e[2].id
           /\ pc = "create_comments"
                 => \A name \in new_names :
                       /\ name \in Keys(CommentCategories(rubric))
                       /\ name \in Keys(RubricComments(rubric))
                       /\ Get(CommentCategories(rubric), name) \in Keys(categories)
                       /\ \E c \in CatsOf(a_id) :
                             /\ c.name = Get(CommentCategories(rubric), name)
                             /\ c.id = Get(categories, c.name).id
           /\ \A k \in OpsOf("create_comment") :
                 OpsAt("delete_category", ops[k].parent) = {}

\* the run has updated a comment and is about to create a comment in a
\* category that the cascade deleted and the run created again
C29_Witness ==
    /\ Incremental /\ pc = "create_comments"
    /\ OpsOf("update_comment") # {}
    /\ \E name \in new_names :
          /\ OpsOn("delete_category", Get(CommentCategories(rubric), name)) # {}
          /\ OpsOn("create_category", Get(CommentCategories(rubric), name)) # {}

\* the comments of the assignment's rubric on the platform, and those named n
RemoteComments ==
    {m \in remoteComs : \E c \in CatsOf(a_id) : c.id = m.category}

RemoteNamed(n) == {m \in RemoteComments : m.name = n}

\* the name of the platform category of the comment m
CategoryNameOf(m) == (CHOOSE c \in remoteCats : c.id = m.category).name

\* the comment m carries the fields of the sheet comment t
Carries(m, t) ==
    /\ m.text = t.text
    /\ m.pointDelta = t.pointDelta
    /\ m.explanation = t.explanation
    /\ m.instructionText = t.instructionText
    /\ m.templateTextOn = t.templateTextOn

\* the sheet lists the name n more than once
Repeated(n) ==
    LET f == Flat(rubric, "comment")
    IN \E i, j \in 1..Len(f) : i # j /\ f[i][1] = n /\ f[j][1] = n

\* the names of the platform's comments of the assignment are unique, and
\* for each name of the sheet one operation (a create or an update) was
\* issued and one comment carries the fields of the sheet's last row of
\* that name
OneCommentPerName ==
    /\ \A m1, m2 \in RemoteComments : m1.name = m2.name => m1 = m2
    /\ \A n \in TargetNames :
          /\ Cardinality(OpsOn("create_comment", n)
                         \cup OpsOn("update_comment", n)) = 1
          /\ Cardinality(RemoteNamed(n)) = 1
          /\ \A m \in RemoteNamed(n) : Carries(m, LastTarget(n))

\* C30 as stated: after a successful incremental run there is one comment
\* per name of the sheet, and it has the fields and the category of the last
\* row of that name
C30_LastOccurrence ==
    (Incremental /\ Successful)
        => /\ OneCommentPerName
           /\ \A n \in TargetNames :
                 \A m \in RemoteNamed(n) :
                    CategoryNameOf(m) = Get(CommentCategories(rubric), n)

\* C30: after a successful incremental run there is one comment per name of
\* the sheet with the fields of the last row of that name; a comment the run
\* created is in the category of that last row, and a comment the platform
\* had keeps its id and the category it was in
C30_UniqueNames ==
    (Incremental /\ Successful)
        => /\ OneCommentPerName
           /\ \A n \in TargetNames :
                 \A m \in RemoteNamed(n) :
                    IF n \in ObservedNames
                    THEN \E m0 \in Coms0 :
                            /\ m0.name = n
                            /\ m0.id = m.id
                            /\ m0.category = m.category
                            /\ OpsAt("update_comment", m.id) # {}
                    ELSE /\ CategoryNameOf(m) = Get(CommentCategories(rubric), n)
                         /\ OpsAt("create_comment", m.id) # {}

\* a successful incremental run on a sheet that lists one name under two
\* categories, the name being new to the platform
C30_Witness ==
    /\ Incremental /\ Successful
    /\ \E n \in TargetNames \ ObservedNames :
          /\ Repeated(n)
          /\ \E i, j \in 1..Len(rubric) :
                /\ i # j
                /\ \E x \in 1..Len(rubric[i].comments) : rubric[i].comments[x].name = n
                /\ \E y \in 1..Len(rubric[j].comments) : rubric[j].comments[y].name = n
          /\ OpsOn("create_comment", n) # {}

============================================================================
